---- MODULE Spec2Model ----
(***************************************************************************)
(* Model of dallinger/db.py: the scoped session registry, the per-session  *)
(* outbox kept in session.info["outbox"], its three session-event          *)
(* listeners (after_begin, after_soft_rollback, after_commit), the scoped  *)
(* transaction wrapper (sessions_scope / scoped_session_decorator) and the *)
(* SERIALIZABLE retry driver (serialized).                                 *)
(*                                                                         *)
(* The session library is modelled by the events it fires on the listeners *)
(* of db.py: the first use of a connection in a transaction fires          *)
(* after_begin; a rollback that succeeds (of the whole transaction or to a *)
(* savepoint) fires after_soft_rollback; a commit whose database commit    *)
(* succeeded fires after_commit.  commit() and rollback() may raise.       *)
(* commit() is not one step: after the database commit, every call of      *)
(* redis_conn.publish made by after_commit is a step of its own, and the   *)
(* other workers run in between.                                           *)
(* A call of the session that raises inside a unit of work is raised to    *)
(* the code that made the call: the work may catch the exception and go    *)
(* on, or let it reach the wrapper around it.                              *)
(* A nested transaction appears only through the soft-rollback event: a    *)
(* rollback to a savepoint that leaves the outer transaction active.       *)
(* remove() closes the worker's session and clears the registry, so that   *)
(* the next use gets a fresh session with an empty info dictionary.        *)
(*                                                                         *)
(* Every variable of db.py is a function of the worker: the scoped_session *)
(* registry keeps one session per worker.  The bus (redis_conn) is shared. *)
(*                                                                         *)
(* Also modelled: get_mailer and EmailConfig.validate of                   *)
(* dallinger/notifications.py, as operators applied to a configuration     *)
(* (a mapping whose get returns None for a key it does not hold).          *)
(***************************************************************************)
EXTENDS Naturals, Sequences, FiniteSets

\* ------------------------------------------------------------------ bounds

\* the most entries queued in one outbox
MaxQueue == 2
\* the most entries on the bus: a commit that would exceed it is not taken
MaxBus == 3

\* ------------------------------------------------------- program constants

\* db.py:126  attempts = 100
Attempts == 100

\* --------------------------------------------------------------- the inputs

Workers == {"w1", "w2"}
\* the worker that acts in the single-worker specifications
Callers == {"w1"}
Channels == {"chat"}
Messages == {"hello", "world"}
\* what a unit of work may return
Results == {"r1", "r2"}

\* exceptions a unit of work, or commit(), may raise
\*   TransactionRollbackError: OperationalError whose .orig is a
\*                             psycopg2 TransactionRollbackError (a conflict)
\*   OperationalError:         any other sqlalchemy OperationalError
\*   Exception:                any other subclass of Exception
\*   BaseException:            not a subclass of Exception (KeyboardInterrupt)
\*   PublishError:             raised by redis_conn.publish
\*   RollbackError:            raised by session.rollback() itself
NoExc == "none"
WorkErrors == {"TransactionRollbackError", "OperationalError", "Exception", "BaseException"}
\* before its database commit, commit() flushes: it may raise a conflict,
\* another OperationalError, or any other error (an IntegrityError)
CommitErrors == {"TransactionRollbackError", "OperationalError", "Exception"}
Operational == {"TransactionRollbackError", "OperationalError"}

VARIABLES
    bound,      \* bound[w]: the registry holds a session for worker w
    info,       \* info[w]: session.info; has = ("outbox" in session.info)
    txn,        \* txn[w]: "none" (no connection begun), "active", "committed"
                \*         (the database commit is done and after_commit runs,
                \*         or it raised inside commit(): then the transaction
                \*         is spent; it takes no commit, and rollback() raises)
    iso,        \* iso[w]: isolation level of the session's connection
    bus,        \* what redis_conn.publish has received, in order
    pc,         \* pc[w]: where worker w is in its wrapper
    commitArg,  \* commitArg[w]: the commit argument of sessions_scope
    attempts,   \* attempts[w]: the local variable of serialized.wrapper
    exc,        \* exc[w]: the exception in flight, or the one the call raised
    orig,       \* orig[w]: the exception the unit of work raised in this call
                \*          (in serialized: the one the current attempt failed with)
    result,     \* result[w]: what the work returned / the call returns
    trace,      \* trace[w]: what the scoped wrapper did in this call, in order
    count,      \* count[w]: per call of serialized: attempts of the work,
                \*           conflicts, sleeps, commits made by the driver
    queued,     \* queued[w]: the pairs queue_message was called with since
                \*            the last begin / rollback event of the session
    rolled,     \* rolled[w]: 0; or, when a rollback event has fired with no
                \*            queue_message or commit since, 1 (it found the
                \*            outbox empty) or 2 (it discarded entries)
    inCommit,   \* inCommit[w]: the call of session.commit() that worker w is
                \*   in, after its database commit: at (where it was called;
                \*   "none": w is not in commit()), sent (iterations of the
                \*   loop of after_commit done), t (txn[w] when it was called),
                \*   b (the length of the bus when it was called)
    last,       \* the last step: worker, operation, outcome, entries touched
    config,     \* notifications.py: the configuration get_mailer is given
    strict,     \* notifications.py: the strict argument of get_mailer
    mail        \* notifications.py: what the call of get_mailer did

dbVars == <<bound, info, txn, iso, bus, pc, commitArg, attempts, exc, orig, result,
            trace, count, queued, rolled, inCommit, last>>
mailVars == <<config, strict, mail>>
vars == <<dbVars, mailVars>>

sessionVars == <<bound, info, txn, iso>>
callVars == <<pc, commitArg, attempts, exc, orig, result, trace, count>>

\* ------------------------------------------------- db.py: the outbox hooks

\* session.info of a fresh session: no "outbox" key
FreshInfo == [has |-> FALSE, outbox |-> <<>>]

\* info.get("outbox", ())
OutboxOf(i) == IF i.has THEN i.outbox ELSE <<>>

\* def after_begin(session, transaction, connection):
\*     session.info["outbox"] = []
after_begin(st) == [info |-> [has |-> TRUE, outbox |-> <<>>], bus |-> st.bus]

\* a plausible slip: the listener leaves the outbox as it is
after_soft_rollback_keeps(st) == st

\* a plausible slip: the listener discards only what was queued after the
\* savepoint (here: the last entry) and keeps the entries before it
after_soft_rollback_to_savepoint(st) ==
    LET box == OutboxOf(st.info)
    IN  [info |-> [has |-> TRUE,
                   outbox |-> IF box = <<>> THEN <<>>
                              ELSE SubSeq(box, 1, Len(box) - 1)],
         bus |-> st.bus]

\* def after_soft_rollback(session, previous_transaction):
\*     session.info["outbox"] = []
after_soft_rollback(st) == [info |-> [has |-> TRUE, outbox |-> <<>>], bus |-> st.bus]

\* a plausible slip: the entry is published as soon as it is queued
queue_message_publishes_now(st, channel, message) ==
    [info |-> [has |-> TRUE,
               outbox |-> Append(OutboxOf(st.info), <<channel, message>>)],
     bus |-> Append(st.bus, <<channel, message>>)]

\* a plausible slip: the entry is put at the front of the outbox
queue_message_prepends(st, channel, message) ==
    [info |-> [has |-> TRUE,
               outbox |-> <<<<channel, message>>>> \o OutboxOf(st.info)],
     bus |-> st.bus]

\* def queue_message(channel, message):
\*     if "outbox" not in session.info: session.info["outbox"] = []
\*     session.info["outbox"].append((channel, message))
queue_message(st, channel, message) ==
    LET i1 == IF ~st.info.has THEN [has |-> TRUE, outbox |-> <<>>] ELSE st.info
    IN  [info |-> [i1 EXCEPT !.outbox = Append(@, <<channel, message>>)],
         bus |-> st.bus]

\* def after_commit(session):
\*     for channel, message in session.info.get("outbox", ()):
\*         redis_conn.publish(channel, message)
\* the k-th iteration of the loop (k in 1..Len(outbox)), when publish returns;
\* the loop ends after Len(outbox) iterations, or when publish raises
after_commit(st, k) ==
    [info |-> st.info, bus |-> Append(st.bus, OutboxOf(st.info)[k])]

\* ------------------------------------- the session library, seen from db.py

\* a plausible slip: one session for the whole process instead of one per
\* worker (a registry whose scope is not the worker)
St_one_session(w) == [info |-> info["w1"], bus |-> bus]

\* the worker's session and the bus, as the hooks see them
St(w) == [info |-> info[w], bus |-> bus]

\* the registry creates the worker's session on first use
Bind(w) == bound' = [bound EXCEPT ![w] = TRUE]

\* the step just taken
Did(w, op, out, n) == last' = [w |-> w, op |-> op, out |-> out, n |-> n]

\* a rollback event discards the outbox
Discarded(w) ==
    [rolled EXCEPT ![w] = IF @ > 0 THEN @
                          ELSE IF OutboxOf(info[w]) = <<>> THEN 1 ELSE 2]

\* exception e leaves the unit of work that runs at position at, and enters
\* the wrapper around it: sessions_scope has "except Exception" and
\* "finally", serialized.wrapper has "except OperationalError" and "finally"
Propagates(w, at, e) ==
    /\ at \in {"sc_work", "ser_work"}
    /\ exc' = [exc EXCEPT ![w] = e]
    /\ orig' = [orig EXCEPT ![w] = e]
    /\ pc' = [pc EXCEPT ![w] =
           IF at = "sc_work"
           THEN IF e = "BaseException" THEN "sc_finally" ELSE "sc_except"
           ELSE IF e \in Operational THEN "ser_except" ELSE "ser_finally"]

\* a call of the session made at position at raises e.  The code that made
\* the call (the user of the bare session, the body of the with statement,
\* func) either catches e and goes on, or lets it leave the unit of work
RaiseFrom(w, at, e) ==
    \/ /\ pc' = [pc EXCEPT ![w] = at]
       /\ UNCHANGED <<exc, orig>>
    \/ Propagates(w, at, e)

RaiseInWork(w, e) == RaiseFrom(w, pc[w], e)

\* what session.commit() may raise before its database commit: a spent
\* transaction refuses the commit and stays as it is
CommitMayRaise(w, e, undone) ==
    txn[w] = "committed" => (e = "Exception" /\ ~undone)

\* the first use of a connection in the session's transaction:
\* the library fires after_begin
SessionBegins(w) ==
    /\ txn[w] = "none"
    /\ Bind(w)
    /\ info' = [info EXCEPT ![w] = after_begin(St(w)).info]
    /\ bus' = after_begin(St(w)).bus
    /\ txn' = [txn EXCEPT ![w] = "active"]
    /\ queued' = [queued EXCEPT ![w] = <<>>]
    /\ UNCHANGED rolled

\* worker w is not inside session.commit()
NotInCommit == [at |-> "none", sent |-> 0, t |-> "none", b |-> 0]

\* the entries that the commits in progress of the workers ws are still to
\* publish
RECURSIVE ToPublish(_)
ToPublish(ws) ==
    IF ws = {} THEN 0
    ELSE LET w == CHOOSE x \in ws : TRUE
         IN  (IF inCommit[w].at = "none" THEN 0
              ELSE Len(OutboxOf(info[w])) - inCommit[w].sent)
             + ToPublish(ws \ {w})

\* session.commit() up to its database commit, which succeeds: the
\* transaction is committed, and the library goes on to fire after_commit
SessionCommits(w) ==
    /\ txn[w] # "committed"
    /\ Len(bus) + ToPublish(Workers \ {w}) + Len(OutboxOf(St(w).info)) <= MaxBus
    /\ Bind(w)
    /\ txn' = [txn EXCEPT ![w] = "committed"]
    /\ iso' = [iso EXCEPT ![w] = "default"]
    /\ inCommit' = [inCommit EXCEPT ![w] =
                       [at |-> pc[w], sent |-> 0, t |-> txn[w], b |-> Len(bus)]]
    /\ pc' = [pc EXCEPT ![w] = "in_commit"]
    /\ Did(w, "commit", "db_committed", Len(OutboxOf(St(w).info)))
    /\ UNCHANGED <<info, bus, queued, rolled>>

\* after_commit, one iteration of its loop: redis_conn.publish returns
SessionPublishes(w) ==
    LET k == inCommit[w].sent + 1
    IN  /\ pc[w] = "in_commit"
        /\ k <= Len(OutboxOf(St(w).info))
        /\ info' = [info EXCEPT ![w] = after_commit(St(w), k).info]
        /\ bus' = after_commit(St(w), k).bus
        /\ inCommit' = [inCommit EXCEPT ![w].sent = k]
        /\ Did(w, "publish", "ok", k)
        /\ UNCHANGED <<bound, txn, iso, queued, rolled>>

\* session.commit() ends.  e = NoExc: the loop of after_commit is over and
\* commit() returns.  Otherwise redis_conn.publish raises e in the next
\* iteration, the exception leaves the loop, and commit() raises it with the
\* transaction already committed
SessionCommitEnds(w, e) ==
    /\ pc[w] = "in_commit"
    /\ IF e = NoExc
       THEN inCommit[w].sent >= Len(OutboxOf(St(w).info))
       ELSE inCommit[w].sent < Len(OutboxOf(St(w).info))
    /\ txn' = [txn EXCEPT ![w] = IF e = NoExc THEN "none" ELSE "committed"]
    /\ queued' = [queued EXCEPT ![w] = <<>>]
    /\ rolled' = [rolled EXCEPT ![w] = 0]
    /\ inCommit' = [inCommit EXCEPT ![w] = NotInCommit]
    /\ Did(w, "commit", IF e = NoExc THEN "ok" ELSE e, inCommit[w].sent)
    /\ UNCHANGED <<bound, info, iso, bus>>

\* session.commit() that raises before the database commit: nothing is
\* committed and after_commit does not fire.  undone: the library rolled the
\* transaction back itself before raising (a failing flush), which fires
\* after_soft_rollback; otherwise the transaction is left as it was
SessionCommitRaises(w, undone) ==
    /\ Bind(w)
    /\ bus' = bus
    /\ IF undone
       THEN /\ info' = [info EXCEPT ![w] = after_soft_rollback(St(w)).info]
            /\ txn' = [txn EXCEPT ![w] = "none"]
            /\ iso' = [iso EXCEPT ![w] = "default"]
            /\ queued' = [queued EXCEPT ![w] = <<>>]
            /\ rolled' = Discarded(w)
       ELSE UNCHANGED <<info, txn, iso, queued, rolled>>

\* session.rollback() that succeeds: the transaction ends and the library
\* fires after_soft_rollback
SessionRollsBack(w) ==
    /\ txn[w] # "committed"
    /\ Bind(w)
    /\ info' = [info EXCEPT ![w] = after_soft_rollback(St(w)).info]
    /\ bus' = after_soft_rollback(St(w)).bus
    /\ txn' = [txn EXCEPT ![w] = "none"]
    /\ iso' = [iso EXCEPT ![w] = "default"]
    /\ queued' = [queued EXCEPT ![w] = <<>>]
    /\ rolled' = Discarded(w)

\* session.rollback() that raises: no event fires.  A failing database
\* rollback closes the transaction; a spent transaction refuses the rollback
\* and stays as it is
SessionRollbackRaises(w) ==
    /\ Bind(w)
    /\ txn' = [txn EXCEPT ![w] = IF @ = "committed" THEN "committed" ELSE "none"]
    /\ iso' = [iso EXCEPT ![w] = IF txn[w] = "committed" THEN @ ELSE "default"]
    /\ UNCHANGED <<info, bus, queued, rolled>>

\* session.remove(): close the worker's session and clear the registry; the
\* next use creates a session whose info is empty
SessionRemove(w) ==
    /\ bound' = [bound EXCEPT ![w] = FALSE]
    /\ info' = [info EXCEPT ![w] = FreshInfo]
    /\ txn' = [txn EXCEPT ![w] = "none"]
    /\ iso' = [iso EXCEPT ![w] = "default"]
    /\ queued' = [queued EXCEPT ![w] = <<>>]
    /\ rolled' = [rolled EXCEPT ![w] = 0]
    /\ bus' = bus

\* ------------------------------------------ what a unit of work may do

\* the positions at which a unit of work runs: it may call any operation of
\* the session, whatever wrapper it runs in
AtWork == {"free", "sc_work", "ser_work"}

\* the work uses the database for the first time in this transaction
Begin(w) ==
    /\ pc[w] \in AtWork
    /\ SessionBegins(w)
    /\ Did(w, "begin", "ok", Len(OutboxOf(info[w])))
    /\ UNCHANGED <<iso, callVars>>
    /\ UNCHANGED <<inCommit, mailVars>>

\* the work calls queue_message(channel, message)
QueueMessage(w, channel, message) ==
    /\ pc[w] \in AtWork
    /\ Len(OutboxOf(info[w])) < MaxQueue
    /\ Bind(w)
    /\ info' = [info EXCEPT ![w] = queue_message(St(w), channel, message).info]
    /\ bus' = queue_message(St(w), channel, message).bus
    /\ queued' = [queued EXCEPT ![w] = Append(@, <<channel, message>>)]
    /\ rolled' = [rolled EXCEPT ![w] = 0]
    /\ Did(w, "queue", "ok", 1)
    /\ UNCHANGED <<txn, iso, callVars>>
    /\ UNCHANGED <<inCommit, mailVars>>

\* the work rolls back to a savepoint: the outer transaction stays active
SoftRollback(w) ==
    /\ pc[w] \in AtWork
    /\ txn[w] = "active"
    /\ Bind(w)
    /\ info' = [info EXCEPT ![w] = after_soft_rollback(St(w)).info]
    /\ bus' = after_soft_rollback(St(w)).bus
    /\ queued' = [queued EXCEPT ![w] = <<>>]
    /\ rolled' = Discarded(w)
    /\ Did(w, "soft_rollback", "ok", Len(OutboxOf(info[w])))
    /\ UNCHANGED <<txn, iso, callVars>>
    /\ UNCHANGED <<inCommit, mailVars>>

\* the work calls session.rollback()
Rollback(w) ==
    /\ pc[w] \in AtWork
    /\ \/ /\ SessionRollsBack(w)
          /\ Did(w, "rollback", "ok", Len(OutboxOf(info[w])))
          /\ UNCHANGED callVars
       \/ /\ SessionRollbackRaises(w)
          /\ Did(w, "rollback", "OperationalError", 0)
          /\ RaiseInWork(w, "OperationalError")
          /\ UNCHANGED <<commitArg, attempts, result, trace, count>>
    /\ UNCHANGED <<inCommit, mailVars>>

\* the work calls session.commit()
Commit(w) ==
    /\ pc[w] \in AtWork
    /\ \/ /\ SessionCommits(w)
          /\ UNCHANGED <<exc, orig>>
       \/ \E e \in CommitErrors, undone \in BOOLEAN :
             /\ CommitMayRaise(w, e, undone)
             /\ SessionCommitRaises(w, undone)
             /\ Did(w, "commit", e, 0)
             /\ RaiseInWork(w, e)
             /\ UNCHANGED inCommit
    /\ UNCHANGED <<commitArg, attempts, result, trace, count>>
    /\ UNCHANGED mailVars

\* a commit() in progress publishes the next entry of the outbox
Publish(w) ==
    /\ SessionPublishes(w)
    /\ UNCHANGED callVars
    /\ UNCHANGED mailVars

\* the session.commit() called by the work returns, or raises what publish
\* raised
CommitReturns(w) ==
    /\ pc[w] = "in_commit"
    /\ inCommit[w].at \in AtWork
    /\ \/ /\ SessionCommitEnds(w, NoExc)
          /\ pc' = [pc EXCEPT ![w] = inCommit[w].at]
          /\ UNCHANGED <<exc, orig>>
       \/ /\ SessionCommitEnds(w, "PublishError")
          /\ RaiseFrom(w, inCommit[w].at, "PublishError")
    /\ UNCHANGED <<commitArg, attempts, result, trace, count>>
    /\ UNCHANGED mailVars

\* session.remove() by the work
Remove(w) ==
    /\ pc[w] \in AtWork
    /\ bound[w]
    /\ SessionRemove(w)
    /\ Did(w, "remove", "ok", Len(OutboxOf(info[w])))
    /\ UNCHANGED callVars
    /\ UNCHANGED <<inCommit, mailVars>>

\* ------------------------------------------- notifications.py: get_mailer

\* CONFIG_PLACEHOLDER = u"???"
CONFIG_PLACEHOLDER == "???"

\* EmailConfig.mail_config_keys
mail_config_keys == {"smtp_host", "smtp_username", "smtp_password",
                     "contact_email_on_error", "dallinger_email_address"}

\* the keys in the order sorted() puts them
KeyOrder == <<"contact_email_on_error", "dallinger_email_address", "smtp_host",
              "smtp_password", "smtp_username">>

\* what a configuration holds for a key: nothing (get returns None), the
\* empty string, the placeholder, or a value to use
Values == {"None", "", CONFIG_PLACEHOLDER, "value"}
Modes == {"None", "debug", "live"}

Configs ==
    {c \in [mail_config_keys \cup {"mode"} -> Values \cup Modes] :
        /\ c["mode"] \in Modes
        /\ \A k \in mail_config_keys : c[k] \in Values}

\* def __init__(self, config):
\*     self.smtp_host = config.get("smtp_host")          (and the other four)
EmailConfig(c) == [k \in mail_config_keys |-> c[k]]

\* "not attr": None and the empty string are false
Falsy(v) == v \in {"None", ""}

\* a plausible slip: the comparison with the placeholder is left out
validate_accepts_placeholder(settings) ==
    LET missing == {k \in mail_config_keys : Falsy(settings[k])}
    IN  IF missing # {}
        THEN <<"Missing or invalid config values: ">>
                \o SelectSeq(KeyOrder, LAMBDA k : k \in missing)
        ELSE <<>>

\* def validate(self):
\*     missing = []
\*     for k in self.mail_config_keys:
\*         attr = getattr(self, k, False)
\*         if not attr or attr == CONFIG_PLACEHOLDER: missing.append(k)
\*     if missing:
\*         return "Missing or invalid config values: {}".format(
\*             ", ".join(sorted(missing)))
\* The message is the sequence of its parts; <<>> stands for None.
validate(settings) ==
    LET missing == {k \in mail_config_keys :
                      Falsy(settings[k]) \/ settings[k] = CONFIG_PLACEHOLDER}
    IN  IF missing # {}
        THEN <<"Missing or invalid config values: ">>
                \o SelectSeq(KeyOrder, LAMBDA k : k \in missing)
        ELSE <<>>

\* LoggingMailer()
LoggingMailer(logged) ==
    [called |-> TRUE, returned |-> "LoggingMailer", args |-> <<>>,
     raised |-> <<>>, logged |-> logged]

\* a plausible slip: strict is not looked at
get_mailer_ignores_strict(c, s) ==
    LET settings == EmailConfig(c)
        problems == validate(settings)
    IN  IF c["mode"] = "debug" THEN LoggingMailer(<<>>)
        ELSE IF problems # <<>>
        THEN LoggingMailer(
                 <<problems \o <<" Will log errors instead of emailing them.">>>>)
        ELSE [called |-> TRUE, returned |-> "SMTPMailer",
              args |-> <<settings["smtp_host"], settings["smtp_username"],
                         settings["smtp_password"]>>,
              raised |-> <<>>, logged |-> <<>>]

\* def get_mailer(config, strict=False):
\*     settings = EmailConfig(config)
\*     if config.get("mode") == "debug": return LoggingMailer()
\*     problems = settings.validate()
\*     if problems:
\*         if strict: raise InvalidEmailConfig(problems)
\*         logger.info(problems + " Will log errors instead of emailing them.")
\*         return LoggingMailer()
\*     return SMTPMailer(settings.smtp_host, settings.smtp_username,
\*                       settings.smtp_password)
get_mailer(c, s) ==
    LET settings == EmailConfig(c)
        problems == validate(settings)
    IN  IF c["mode"] = "debug" THEN LoggingMailer(<<>>)
        ELSE IF problems # <<>>
        THEN IF s
             THEN [called |-> TRUE, returned |-> "nothing", args |-> <<>>,
                   raised |-> <<"InvalidEmailConfig">> \o problems,
                   logged |-> <<>>]
             ELSE LoggingMailer(
                      <<problems \o <<" Will log errors instead of emailing them.">>>>)
        ELSE [called |-> TRUE, returned |-> "SMTPMailer",
              args |-> <<settings["smtp_host"], settings["smtp_username"],
                         settings["smtp_password"]>>,
              raised |-> <<>>, logged |-> <<>>]

\* get_mailer has not been called
NotCalled ==
    [called |-> FALSE, returned |-> "nothing", args |-> <<>>, raised |-> <<>>,
     logged |-> <<>>]

\* the program calls get_mailer(config, strict)
GetMailer ==
    /\ ~mail.called
    /\ mail' = get_mailer(config, strict)
    /\ UNCHANGED <<config, strict, dbVars>>

\* no call of get_mailer takes part
MailIdle ==
    /\ config = [k \in mail_config_keys \cup {"mode"} |-> "None"]
    /\ strict = FALSE
    /\ mail = NotCalled

\* ------------------------------------------------------------ the states

NoCount == [work |-> 0, conflicts |-> 0, sleeps |-> 0, commits |-> 0]

InitDb ==
    /\ bound = [w \in Workers |-> FALSE]
    /\ info = [w \in Workers |-> FreshInfo]
    /\ txn = [w \in Workers |-> "none"]
    /\ iso = [w \in Workers |-> "default"]
    /\ bus = <<>>
    /\ commitArg = [w \in Workers |-> FALSE]
    /\ attempts = [w \in Workers |-> 0]
    /\ exc = [w \in Workers |-> NoExc]
    /\ orig = [w \in Workers |-> NoExc]
    /\ result = [w \in Workers |-> "None"]
    /\ trace = [w \in Workers |-> <<>>]
    /\ count = [w \in Workers |-> NoCount]
    /\ queued = [w \in Workers |-> <<>>]
    /\ rolled = [w \in Workers |-> 0]
    /\ inCommit = [w \in Workers |-> NotInCommit]
    /\ last = [w |-> "w1", op |-> "init", out |-> "ok", n |-> 0]

InitCommon == InitDb /\ MailIdle

\* a worker uses its bound session directly: any sequence of the operations
Init ==
    /\ InitCommon
    /\ pc = [w \in Workers |-> IF w \in Callers THEN "free" ELSE "idle"]

Next ==
    \E w \in Callers :
        \/ Begin(w)
        \/ \E c \in Channels, m \in Messages : QueueMessage(w, c, m)
        \/ SoftRollback(w)
        \/ Rollback(w)
        \/ Commit(w)
        \/ Publish(w)
        \/ CommitReturns(w)
        \/ Remove(w)

Spec == Init /\ [][Next]_vars

\* ------------------------------------------ several workers, interleaved

\* what a worker queues when several workers run, or when its work may be
\* run many times: each worker sends its own message, so that an entry tells
\* which worker queued it
SentBy(w) == IF w = "w1" THEN {"hello"} ELSE {"world"}

\* every worker uses the session the registry binds to it
InitWorkers ==
    /\ InitCommon
    /\ pc = [w \in Workers |-> "free"]

NextWorkers ==
    \E w \in Workers :
        \/ Begin(w)
        \/ \E c \in Channels, m \in SentBy(w) : QueueMessage(w, c, m)
        \/ SoftRollback(w)
        \/ Rollback(w)
        \/ Commit(w)
        \/ Publish(w)
        \/ CommitReturns(w)
        \/ Remove(w)

SpecWorkers == InitWorkers /\ [][NextWorkers]_vars

\* ------------------------------ sessions_scope / scoped_session_decorator

Terminal == {"returned", "raised"}

Log(w, what) == trace' = [trace EXCEPT ![w] = Append(@, what)]

\* a call starts: with sessions_scope(local_session, commit) as ...:
EnterScope(w, commit, how) ==
    /\ pc[w] \in {"idle"} \cup Terminal
    /\ pc' = [pc EXCEPT ![w] = "sc_work"]
    /\ commitArg' = [commitArg EXCEPT ![w] = commit]
    /\ exc' = [exc EXCEPT ![w] = NoExc]
    /\ orig' = [orig EXCEPT ![w] = NoExc]
    /\ result' = [result EXCEPT ![w] = "None"]
    /\ trace' = [trace EXCEPT ![w] = <<>>]
    /\ Did(w, how, "ok", 0)
    /\ UNCHANGED <<sessionVars, bus, attempts, count, queued, rolled>>
    /\ UNCHANGED <<inCommit, mailVars>>

\* with sessions_scope(session, commit=...): called directly
sessions_scope(w, commit) == EnterScope(w, commit, "sessions_scope")

\* def wrapper(*args, **kwargs):
\*     with sessions_scope(session):        (commit keeps its default, False)
\*         return func(*args, **kwargs)
scoped_session_decorator(w) == EnterScope(w, FALSE, "scoped_session_decorator")

\* a plausible slip: the wrapper commits whatever its commit argument is
WorkReturns_always_commits(w, r) ==
    /\ pc[w] \in {"sc_work", "ser_work"}
    /\ pc' = [pc EXCEPT ![w] =
           IF pc[w] = "ser_work" THEN "ser_commit" ELSE "sc_commit"]
    /\ result' = [result EXCEPT ![w] = r]
    /\ Did(w, "work_returns", r, 0)
    /\ UNCHANGED <<sessionVars, bus, commitArg, attempts, exc, orig, trace, count,
                   queued, rolled>>
    /\ UNCHANGED <<inCommit, mailVars>>

\* the unit of work returns r: the body of the with statement ends (yield
\* returns in sessions_scope), or func returns in serialized.wrapper
WorkReturns(w, r) ==
    /\ pc[w] \in {"sc_work", "ser_work"}
    /\ pc' = [pc EXCEPT ![w] =
           IF pc[w] = "ser_work" THEN "ser_commit"
           ELSE IF commitArg[w] THEN "sc_commit" ELSE "sc_finally"]
    /\ result' = [result EXCEPT ![w] = r]
    /\ Did(w, "work_returns", r, 0)
    /\ UNCHANGED <<sessionVars, bus, commitArg, attempts, exc, orig, trace, count,
                   queued, rolled>>
    /\ UNCHANGED <<inCommit, mailVars>>

\* the unit of work raises e, or lets an exception it caught go on as e
WorkRaises(w, e) ==
    /\ pc[w] \in {"sc_work", "ser_work"}
    /\ Propagates(w, pc[w], e)
    /\ Did(w, "work_raises", e, 0)
    /\ UNCHANGED <<sessionVars, bus, commitArg, attempts, result, trace, count,
                   queued, rolled>>
    /\ UNCHANGED <<inCommit, mailVars>>

\* if commit:
\*     local_session.commit()
\* up to the database commit
ScopeCommit(w) ==
    /\ pc[w] = "sc_commit"
    /\ \/ /\ SessionCommits(w)
          /\ UNCHANGED <<exc, trace>>
       \/ \E e \in CommitErrors, undone \in BOOLEAN :
             /\ CommitMayRaise(w, e, undone)
             /\ SessionCommitRaises(w, undone)
             /\ Did(w, "commit", e, 0)
             /\ Log(w, "commit_raised")
             /\ pc' = [pc EXCEPT ![w] = "sc_except"]
             /\ exc' = [exc EXCEPT ![w] = e]
             /\ UNCHANGED inCommit
    /\ UNCHANGED <<commitArg, attempts, orig, result, count>>
    /\ UNCHANGED mailVars

\*     local_session.commit()                   (returns, or publish raised)
\*     logger.debug("DB session auto-committed as requested")
ScopeCommitReturns(w) ==
    /\ pc[w] = "in_commit"
    /\ inCommit[w].at = "sc_commit"
    /\ \/ /\ SessionCommitEnds(w, NoExc)
          /\ Log(w, "commit")
          /\ pc' = [pc EXCEPT ![w] = "sc_finally"]
          /\ UNCHANGED exc
       \/ /\ SessionCommitEnds(w, "PublishError")
          /\ Log(w, "commit_publish_raised")
          /\ pc' = [pc EXCEPT ![w] = "sc_except"]
          /\ exc' = [exc EXCEPT ![w] = "PublishError"]
    /\ UNCHANGED <<commitArg, attempts, orig, result, count>>
    /\ UNCHANGED mailVars

\* except Exception as e:
\*     logger.exception("Exception during scoped worker transaction, ...")
ScopeExcept(w) ==
    /\ pc[w] = "sc_except"
    /\ Log(w, "log_exception")
    /\ pc' = [pc EXCEPT ![w] = "sc_rollback"]
    /\ Did(w, "log_exception", exc[w], 0)
    /\ UNCHANGED <<sessionVars, bus, commitArg, attempts, exc, orig, result, count,
                   queued, rolled>>
    /\ UNCHANGED <<inCommit, mailVars>>

\* a plausible slip: the handler rolls back and forgets to re-raise
ScopeRollback_swallows(w) ==
    /\ pc[w] = "sc_rollback"
    /\ \/ /\ SessionRollsBack(w)
          /\ Did(w, "rollback", "ok", Len(OutboxOf(info[w])))
          /\ Log(w, "rollback")
          /\ exc' = [exc EXCEPT ![w] = NoExc]
       \/ /\ SessionRollbackRaises(w)
          /\ Did(w, "rollback", "RollbackError", 0)
          /\ Log(w, "rollback_raised")
          /\ exc' = [exc EXCEPT ![w] = "RollbackError"]
    /\ pc' = [pc EXCEPT ![w] = "sc_finally"]
    /\ UNCHANGED <<commitArg, attempts, orig, result, count>>
    /\ UNCHANGED <<inCommit, mailVars>>

\*     local_session.rollback()
\*     raise e
ScopeRollback(w) ==
    /\ pc[w] = "sc_rollback"
    /\ \/ /\ SessionRollsBack(w)
          /\ Did(w, "rollback", "ok", Len(OutboxOf(info[w])))
          /\ Log(w, "rollback")
          /\ UNCHANGED exc
       \/ /\ SessionRollbackRaises(w)
          /\ Did(w, "rollback", "RollbackError", 0)
          /\ Log(w, "rollback_raised")
          /\ exc' = [exc EXCEPT ![w] = "RollbackError"]
    /\ pc' = [pc EXCEPT ![w] = "sc_finally"]
    /\ UNCHANGED <<commitArg, attempts, orig, result, count>>
    /\ UNCHANGED <<inCommit, mailVars>>

\* a plausible slip: remove() placed after the try statement instead of in
\* its finally clause, so that it is skipped when an exception is in flight
ScopeFinally_not_finally(w) ==
    /\ pc[w] = "sc_finally"
    /\ IF exc[w] = NoExc
       THEN /\ SessionRemove(w)
            /\ Log(w, "remove")
            /\ Did(w, "remove", "ok", Len(OutboxOf(info[w])))
       ELSE /\ Did(w, "propagate", exc[w], 0)
            /\ UNCHANGED <<sessionVars, bus, queued, rolled, trace>>
    /\ pc' = [pc EXCEPT ![w] = IF exc[w] = NoExc THEN "returned" ELSE "raised"]
    /\ UNCHANGED <<commitArg, attempts, exc, orig, result, count>>
    /\ UNCHANGED <<inCommit, mailVars>>

\* finally:
\*     local_session.remove()
\*     logger.debug("Session complete, db session closed")
\* and the call returns, or raises the exception in flight
ScopeFinally(w) ==
    /\ pc[w] = "sc_finally"
    /\ SessionRemove(w)
    /\ Log(w, "remove")
    /\ Did(w, "remove", "ok", Len(OutboxOf(info[w])))
    /\ pc' = [pc EXCEPT ![w] = IF exc[w] = NoExc THEN "returned" ELSE "raised"]
    /\ UNCHANGED <<commitArg, attempts, exc, orig, result, count>>
    /\ UNCHANGED <<inCommit, mailVars>>

InitScope ==
    /\ InitCommon
    /\ pc = [w \in Workers |-> "idle"]

NextScope ==
    \E w \in Callers :
        \/ \E commit \in BOOLEAN : sessions_scope(w, commit)
        \/ scoped_session_decorator(w)
        \/ Begin(w)
        \/ \E c \in Channels, m \in Messages : QueueMessage(w, c, m)
        \/ SoftRollback(w)
        \/ Rollback(w)
        \/ Commit(w)
        \/ Publish(w)
        \/ CommitReturns(w)
        \/ Remove(w)
        \/ \E r \in Results : WorkReturns(w, r)
        \/ \E e \in WorkErrors : WorkRaises(w, e)
        \/ ScopeCommit(w)
        \/ ScopeCommitReturns(w)
        \/ ScopeExcept(w)
        \/ ScopeRollback(w)
        \/ ScopeFinally(w)

SpecScope == InitScope /\ [][NextScope]_vars

\* ------------------------------------------------------------- serialized

Counted(w, field) == count' = [count EXCEPT ![w][field] = @ + 1]

\* def wrapper(*args, **kw):
\*     attempts = 100
\*     session.remove()
serialized(w) ==
    /\ pc[w] \in {"idle"} \cup Terminal
    /\ attempts' = [attempts EXCEPT ![w] = Attempts]
    /\ SessionRemove(w)
    /\ pc' = [pc EXCEPT ![w] = "ser_loop"]
    /\ exc' = [exc EXCEPT ![w] = NoExc]
    /\ orig' = [orig EXCEPT ![w] = NoExc]
    /\ result' = [result EXCEPT ![w] = "None"]
    /\ trace' = [trace EXCEPT ![w] = <<>>]
    /\ count' = [count EXCEPT ![w] = NoCount]
    /\ Did(w, "serialized", "ok", Len(OutboxOf(info[w])))
    /\ UNCHANGED commitArg
    /\ UNCHANGED <<inCommit, mailVars>>

\* a plausible slip: the loop test is "attempts >= 0"
SerLoop_while_not_negative(w) ==
    /\ pc[w] = "ser_loop"
    /\ pc' = [pc EXCEPT ![w] = "ser_try"]
    /\ Did(w, "loop", "enter", 0)
    /\ orig' = [orig EXCEPT ![w] = NoExc]
    /\ UNCHANGED result
    /\ UNCHANGED <<sessionVars, bus, commitArg, attempts, exc, trace, count,
                   queued, rolled>>
    /\ UNCHANGED <<inCommit, mailVars>>

\*     while attempts > 0:
\* and, when the loop ends, the function ends without a return statement
SerLoop(w) ==
    /\ pc[w] = "ser_loop"
    /\ IF attempts[w] > 0
       THEN /\ pc' = [pc EXCEPT ![w] = "ser_try"]
            /\ Did(w, "loop", "enter", 0)
            /\ orig' = [orig EXCEPT ![w] = NoExc]
            /\ UNCHANGED result
       ELSE /\ pc' = [pc EXCEPT ![w] = "returned"]
            /\ result' = [result EXCEPT ![w] = "None"]
            /\ Did(w, "loop", "exit", 0)
            /\ UNCHANGED orig
    /\ UNCHANGED <<sessionVars, bus, commitArg, attempts, exc, trace, count,
                   queued, rolled>>
    /\ UNCHANGED <<inCommit, mailVars>>

\*         try:
\*             session.connection(
\*                 execution_options={"isolation_level": "SERIALIZABLE"})
\*             result = func(*args, **kw)           (func is entered here)
SerConnect(w) ==
    /\ pc[w] = "ser_try"
    /\ \/ /\ IF txn[w] = "none"
             THEN SessionBegins(w)
             ELSE Bind(w) /\ UNCHANGED <<info, bus, txn, queued, rolled>>
          /\ iso' = [iso EXCEPT ![w] = "SERIALIZABLE"]
          /\ pc' = [pc EXCEPT ![w] = "ser_work"]
          /\ Counted(w, "work")
          /\ Did(w, "connect", "ok", Len(OutboxOf(info[w])))
          /\ UNCHANGED <<exc, orig>>
       \/ /\ Bind(w)
          /\ pc' = [pc EXCEPT ![w] = "ser_except"]
          /\ exc' = [exc EXCEPT ![w] = "OperationalError"]
          /\ orig' = [orig EXCEPT ![w] = "OperationalError"]
          /\ Did(w, "connect", "OperationalError", 0)
          /\ UNCHANGED <<info, bus, txn, iso, queued, rolled, count>>
    /\ UNCHANGED <<commitArg, attempts, result, trace>>
    /\ UNCHANGED <<inCommit, mailVars>>

\*             session.commit()
\* up to the database commit; what it raises before that is caught by
\* "except OperationalError" only if it is one
SerCommit(w) ==
    /\ pc[w] = "ser_commit"
    /\ \/ /\ SessionCommits(w)
          /\ UNCHANGED <<exc, orig>>
       \/ \E e \in CommitErrors, undone \in BOOLEAN :
             /\ CommitMayRaise(w, e, undone)
             /\ SessionCommitRaises(w, undone)
             /\ Did(w, "commit", e, 0)
             /\ pc' = [pc EXCEPT ![w] =
                    IF e \in Operational THEN "ser_except" ELSE "ser_finally"]
             /\ exc' = [exc EXCEPT ![w] = e]
             /\ orig' = [orig EXCEPT ![w] = e]
             /\ UNCHANGED inCommit
    /\ UNCHANGED <<commitArg, attempts, result, trace, count>>
    /\ UNCHANGED mailVars

\*             session.commit()                 (returns, or publish raised)
\*             return result
SerCommitReturns(w) ==
    /\ pc[w] = "in_commit"
    /\ inCommit[w].at = "ser_commit"
    /\ \/ /\ SessionCommitEnds(w, NoExc)
          /\ pc' = [pc EXCEPT ![w] = "ser_finally_return"]
          /\ UNCHANGED <<exc, orig>>
       \/ /\ SessionCommitEnds(w, "PublishError")
          /\ pc' = [pc EXCEPT ![w] = "ser_finally"]
          /\ exc' = [exc EXCEPT ![w] = "PublishError"]
          /\ orig' = [orig EXCEPT ![w] = "PublishError"]
    /\ Counted(w, "commits")
    /\ UNCHANGED <<commitArg, attempts, result, trace>>
    /\ UNCHANGED mailVars

\* a plausible slip: the handler classifies the error and leaves the rollback
\* to the release of the session
SerExcept_without_rollback(w) ==
    /\ pc[w] = "ser_except"
    /\ Bind(w)
    /\ Did(w, "classify", "ok", 0)
    /\ IF exc[w] = "TransactionRollbackError"
       THEN /\ IF attempts[w] > 0
               THEN /\ attempts' = [attempts EXCEPT ![w] = @ - 1]
                    /\ exc' = [exc EXCEPT ![w] = NoExc]
               ELSE /\ exc' = [exc EXCEPT ![w] = "Exhausted"]
                    /\ UNCHANGED attempts
            /\ Counted(w, "conflicts")
       ELSE UNCHANGED <<attempts, exc, count>>
    /\ pc' = [pc EXCEPT ![w] = "ser_finally"]
    /\ UNCHANGED <<info, txn, iso, bus, queued, rolled>>
    /\ UNCHANGED <<commitArg, orig, result, trace>>
    /\ UNCHANGED <<inCommit, mailVars>>

\* a plausible slip: every OperationalError is taken for a conflict and
\* retried
SerExcept_retries_any(w) ==
    /\ pc[w] = "ser_except"
    /\ \/ /\ SessionRollsBack(w)
          /\ Did(w, "rollback", "ok", Len(OutboxOf(info[w])))
          /\ IF attempts[w] > 0
             THEN /\ attempts' = [attempts EXCEPT ![w] = @ - 1]
                  /\ exc' = [exc EXCEPT ![w] = NoExc]
             ELSE /\ exc' = [exc EXCEPT ![w] = "Exhausted"]
                  /\ UNCHANGED attempts
          /\ IF exc[w] = "TransactionRollbackError"
             THEN Counted(w, "conflicts") ELSE UNCHANGED count
       \/ /\ SessionRollbackRaises(w)
          /\ Did(w, "rollback", "RollbackError", 0)
          /\ exc' = [exc EXCEPT ![w] = "RollbackError"]
          /\ UNCHANGED <<attempts, count>>
    /\ pc' = [pc EXCEPT ![w] = "ser_finally"]
    /\ UNCHANGED <<commitArg, orig, result, trace>>
    /\ UNCHANGED <<inCommit, mailVars>>

\* a plausible slip: the session is released on the way out of the call
\* only, and kept between a rejected attempt and the next
SerFinally_keeps_session(w) ==
    /\ pc[w] \in {"ser_finally", "ser_finally_return"}
    /\ IF pc[w] = "ser_finally" /\ exc[w] = NoExc
       THEN /\ Did(w, "keep", "ok", 0)
            /\ UNCHANGED <<sessionVars, bus, queued, rolled>>
       ELSE /\ SessionRemove(w)
            /\ Did(w, "remove", "ok", Len(OutboxOf(info[w])))
    /\ pc' = [pc EXCEPT ![w] =
           IF pc[w] = "ser_finally_return" THEN "returned"
           ELSE IF exc[w] # NoExc THEN "raised" ELSE "ser_sleep"]
    /\ UNCHANGED <<commitArg, attempts, exc, orig, result, trace, count>>
    /\ UNCHANGED <<inCommit, mailVars>>

\* a plausible slip: the sleep is placed in the finally clause, so that it
\* also happens on the way out of a successful attempt
SerFinally_sleeps(w) ==
    /\ pc[w] \in {"ser_finally", "ser_finally_return"}
    /\ SessionRemove(w)
    /\ Did(w, "remove", "ok", Len(OutboxOf(info[w])))
    /\ Counted(w, "sleeps")
    /\ pc' = [pc EXCEPT ![w] =
           IF pc[w] = "ser_finally_return" THEN "returned"
           ELSE IF exc[w] # NoExc THEN "raised" ELSE "ser_loop"]
    /\ UNCHANGED <<commitArg, attempts, exc, orig, result, trace>>
    /\ UNCHANGED <<inCommit, mailVars>>

\*         except OperationalError as exc:
\*             session.rollback()
\*             if isinstance(exc.orig, TransactionRollbackError):
\*                 if attempts > 0:
\*                     attempts -= 1
\*                 else:
\*                     raise Exception("Could not commit serialized "
\*                                     "transaction after 100 attempts.")
\*             else:
\*                 raise
SerExcept(w) ==
    /\ pc[w] = "ser_except"
    /\ \/ /\ SessionRollsBack(w)
          /\ Did(w, "rollback", "ok", Len(OutboxOf(info[w])))
          /\ IF exc[w] = "TransactionRollbackError"
             THEN /\ IF attempts[w] > 0
                     THEN /\ attempts' = [attempts EXCEPT ![w] = @ - 1]
                          /\ exc' = [exc EXCEPT ![w] = NoExc]
                     ELSE /\ exc' = [exc EXCEPT ![w] = "Exhausted"]
                          /\ UNCHANGED attempts
                  /\ Counted(w, "conflicts")
             ELSE UNCHANGED <<attempts, exc, count>>
       \/ /\ SessionRollbackRaises(w)
          /\ Did(w, "rollback", "RollbackError", 0)
          /\ exc' = [exc EXCEPT ![w] = "RollbackError"]
          /\ UNCHANGED <<attempts, count>>
    /\ pc' = [pc EXCEPT ![w] = "ser_finally"]
    /\ UNCHANGED <<commitArg, orig, result, trace>>
    /\ UNCHANGED <<inCommit, mailVars>>

\*         finally:
\*             session.remove()
\* and then: return result, or the exception in flight propagates, or the
\* loop body goes on to the sleep
SerFinally(w) ==
    /\ pc[w] \in {"ser_finally", "ser_finally_return"}
    /\ SessionRemove(w)
    /\ Did(w, "remove", "ok", Len(OutboxOf(info[w])))
    /\ pc' = [pc EXCEPT ![w] =
           IF pc[w] = "ser_finally_return" THEN "returned"
           ELSE IF exc[w] # NoExc THEN "raised" ELSE "ser_sleep"]
    /\ UNCHANGED <<commitArg, attempts, exc, orig, result, trace, count>>
    /\ UNCHANGED <<inCommit, mailVars>>

\*         time.sleep(random.expovariate(0.5))
SerSleep(w) ==
    /\ pc[w] = "ser_sleep"
    /\ Counted(w, "sleeps")
    /\ pc' = [pc EXCEPT ![w] = "ser_loop"]
    /\ Did(w, "sleep", "ok", 0)
    /\ UNCHANGED <<sessionVars, bus, commitArg, attempts, exc, orig, result, trace,
                   queued, rolled>>
    /\ UNCHANGED <<inCommit, mailVars>>

\* the session the worker left behind before it calls serialized
PriorInfos == {FreshInfo, [has |-> TRUE, outbox |-> << <<"chat", "hello">> >>]}

InitSerialized ==
    /\ bound \in [Workers -> BOOLEAN]
    /\ info \in [Workers -> PriorInfos]
    /\ txn \in [Workers -> {"none", "active"}]
    /\ \A w \in Workers :
          /\ w \notin Callers => ~bound[w]
          /\ ~bound[w] => info[w] = FreshInfo /\ txn[w] = "none"
    /\ iso = [w \in Workers |-> "default"]
    /\ bus = <<>>
    /\ commitArg = [w \in Workers |-> FALSE]
    /\ attempts = [w \in Workers |-> 0]
    /\ exc = [w \in Workers |-> NoExc]
    /\ orig = [w \in Workers |-> NoExc]
    /\ result = [w \in Workers |-> "None"]
    /\ trace = [w \in Workers |-> <<>>]
    /\ count = [w \in Workers |-> NoCount]
    /\ queued = [w \in Workers |-> IF info[w].has THEN info[w].outbox ELSE <<>>]
    /\ rolled = [w \in Workers |-> 0]
    /\ inCommit = [w \in Workers |-> NotInCommit]
    /\ last = [w |-> "w1", op |-> "init", out |-> "ok", n |-> 0]
    /\ pc = [w \in Workers |-> "idle"]
    /\ MailIdle

NextSerialized ==
    \E w \in Callers :
        \/ serialized(w)
        \/ SerLoop(w)
        \/ SerConnect(w)
        \/ Begin(w)
        \/ \E c \in Channels, m \in SentBy(w) : QueueMessage(w, c, m)
        \/ SoftRollback(w)
        \/ Rollback(w)
        \/ Commit(w)
        \/ Publish(w)
        \/ CommitReturns(w)
        \/ Remove(w)
        \/ \E r \in Results : WorkReturns(w, r)
        \/ \E e \in WorkErrors : WorkRaises(w, e)
        \/ SerCommit(w)
        \/ SerCommitReturns(w)
        \/ SerExcept(w)
        \/ SerFinally(w)
        \/ SerSleep(w)

SpecSerialized == InitSerialized /\ [][NextSerialized]_vars

\* a step of the code of the driver, or of a session.commit() in progress
DriverRuns(w) ==
    \/ SerLoop(w)
    \/ SerConnect(w)
    \/ Publish(w)
    \/ CommitReturns(w)
    \/ SerCommit(w)
    \/ SerCommitReturns(w)
    \/ SerExcept(w)
    \/ SerFinally(w)
    \/ SerSleep(w)

\* the unit of work ends: it returns or raises
WorkEnds(w) ==
    \/ \E r \in Results : WorkReturns(w, r)
    \/ \E e \in WorkErrors : WorkRaises(w, e)

\* the code of the driver runs on, a commit() that was called comes back,
\* and every attempt of the work ends, with some outcome: func is a call
\* that comes back
SpecSerializedFair ==
    /\ SpecSerialized
    /\ \A w \in Callers : WF_vars(DriverRuns(w))
    /\ \A w \in Callers : SF_vars(WorkEnds(w))

\* ------------------------------------------------- get_mailer, on its own

\* the database layer at rest, and any configuration and strict flag
InitMailer ==
    /\ InitDb
    /\ pc = [w \in Workers |-> "idle"]
    /\ config \in Configs
    /\ strict \in BOOLEAN
    /\ mail = NotCalled

NextMailer == GetMailer

SpecMailer == InitMailer /\ [][NextMailer]_vars

\* ---------------------------------------------------------------- claims

\* the step just taken is the return of a session.commit() of worker w, called
\* in a transaction whose begin event had fired
CommittedBegun(w) ==
    /\ last'.w = w /\ last'.op = "commit" /\ last'.out = "ok"
    /\ inCommit[w].t = "active"

\* the step just taken is a publish made by the commit() worker w is in
Publishing(w) == last'.w = w /\ last'.op = "publish"

\* C1: when a transaction whose begin event has fired commits successfully,
\* with no rollback since that event, the bus receives exactly the pairs
\* queue_message was called with since the begin event, each once, in the
\* order of the calls, and nothing else: the k-th publish of the commit sends
\* the k-th pair queued, and when commit() returns the bus has grown by
\* exactly the pairs queued.
C1_OutboxOrdering ==
    [][\A w \in Workers :
          /\ (Publishing(w) /\ inCommit[w].t = "active") =>
                /\ last'.n <= Len(queued[w])
                /\ bus' = Append(bus, queued[w][last'.n])
          /\ CommittedBegun(w) =>
                /\ bus' = bus
                /\ Len(bus) = inCommit[w].b + Len(queued[w])
                /\ SubSeq(bus, inCommit[w].b + 1, Len(bus)) = queued[w]]_vars

\* Scenario A: two different pairs queued after the begin event have reached
\* the bus in the order queued, sent by the commit of the open transaction,
\* which is about to return
C1_Witness ==
    /\ last.w = "w1" /\ last.op = "publish" /\ last.n = 2
    /\ inCommit["w1"].t = "active" /\ inCommit["w1"].b = 0
    /\ queued["w1"] = << <<"chat", "hello">>, <<"chat", "world">> >>
    /\ bus = << <<"chat", "hello">>, <<"chat", "world">> >>

\* C2: the bus changes only in a publish made by after_commit inside a
\* session.commit() whose database commit has succeeded, and what it receives
\* then is an entry of the committing session's outbox; queue_message
\* publishes nothing.
C2_PublishOnlyAfterCommit ==
    [][bus' # bus =>
          /\ last'.op = "publish"
          /\ pc[last'.w] = "in_commit"
          /\ txn[last'.w] = "committed"
          /\ last'.n \in 1..Len(OutboxOf(info[last'.w]))
          /\ bus' = Append(bus, OutboxOf(info[last'.w])[last'.n])]_vars

\* a pair has just been queued while the bus, which holds an earlier
\* commit's entry, does not hold it
C2_Witness ==
    /\ last.op = "queue"
    /\ Len(bus) = 1
    /\ Len(OutboxOf(info[last.w])) > 0
    /\ OutboxOf(info[last.w])[Len(OutboxOf(info[last.w]))] # bus[1]

\* C3: a rollback event (full or to a savepoint) leaves the outbox empty,
\* and a commit that follows it with no queue_message in between publishes
\* nothing: it makes no publish, and returns with the bus as it was.
C3_RollbackClearsOutbox ==
    [][\A w \in Workers :
          /\ rolled'[w] > 0 => OutboxOf(info'[w]) = <<>>
          /\ rolled[w] > 0 => ~Publishing(w)
          /\ (rolled[w] > 0 /\ last'.w = w /\ last'.op = "commit"
                /\ last'.out = "ok") =>
                   /\ bus' = bus
                   /\ inCommit[w].sent = 0
                   /\ Len(bus) = inCommit[w].b]_vars

\* a rollback discarded the queued entries, nothing was queued after it, and
\* the commit that followed has done its database commit and finds nothing
\* to publish
C3_Witness ==
    /\ last.w = "w1" /\ last.op = "commit" /\ last.out = "db_committed"
    /\ last.n = 0
    /\ rolled["w1"] = 2
    /\ bus = <<>>

\* the events of the call so far
Events(w) == {trace[w][i] : i \in 1..Len(trace[w])}

\* event a is in the trace, and before every occurrence of event b
Before(w, a, b) ==
    \E i \in 1..Len(trace[w]) :
        /\ trace[w][i] = a
        /\ \A j \in 1..Len(trace[w]) : trace[w][j] = b => i < j

\* C4: when the scoped transaction wrapper has returned or raised, the
\* worker has no session bound in the registry, and remove() was the last
\* thing the wrapper did, on every exit path: the work returned, the work
\* raised, commit raised, rollback raised.
C4_SessionReleased ==
    \A w \in Workers :
        pc[w] \in Terminal =>
            /\ ~bound[w]
            /\ info[w] = FreshInfo
            /\ Len(trace[w]) > 0
            /\ trace[w][Len(trace[w])] = "remove"

\* the wrapper's own commit raised, then its rollback raised too, and the
\* session was still released before the call raised
C4_Witness ==
    /\ pc["w1"] = "raised"
    /\ exc["w1"] = "RollbackError"
    /\ trace["w1"] = <<"commit_raised", "log_exception", "rollback_raised", "remove">>
    /\ ~bound["w1"]

\* the errors a unit of work raises that "except Exception" catches
CaughtErrors == {"TransactionRollbackError", "OperationalError", "Exception",
                 "PublishError", "RollbackError"}

\* C5 as stated: if the work raises an error, the wrapper logs it before
\* the rollback, rolls the transaction back, and the caller receives the
\* error the work raised.
C5_OriginalErrorReraised ==
    \A w \in Workers :
        (pc[w] = "raised" /\ orig[w] \in CaughtErrors) =>
            /\ Before(w, "log_exception", "rollback")
            /\ "rollback" \in Events(w)
            /\ exc[w] = orig[w]

\* C5 as amended: if the work raises an error, the wrapper logs it before
\* it attempts the rollback; when the rollback succeeds the outbox is empty
\* after it and the caller receives the error the work raised; when the
\* rollback itself raises, the caller receives the rollback's error.
C5_ErrorLoggedThenRolledBack ==
    \A w \in Workers :
        /\ (pc[w] \in {"sc_except", "sc_rollback", "sc_finally", "raised"}
              /\ orig[w] \in CaughtErrors) =>
                /\ pc[w] # "sc_except" => "log_exception" \in Events(w)
                /\ "rollback" \in Events(w) =>
                      /\ Before(w, "log_exception", "rollback")
                      /\ OutboxOf(info[w]) = <<>>
                      /\ exc[w] = orig[w]
                /\ "rollback_raised" \in Events(w) =>
                      /\ Before(w, "log_exception", "rollback_raised")
                      /\ exc[w] = "RollbackError"
                /\ pc[w] \in {"sc_finally", "raised"} =>
                      ("rollback" \in Events(w)) # ("rollback_raised" \in Events(w))
        /\ (pc[w] \in Terminal /\ orig[w] \in CaughtErrors) => pc[w] = "raised"

\* the work queued an entry and raised, the error was logged, the rollback
\* succeeded and emptied the outbox, and the error is on its way to the caller
C5_Witness ==
    /\ pc["w1"] = "sc_finally"
    /\ orig["w1"] = "Exception" /\ exc["w1"] = "Exception"
    /\ trace["w1"] = <<"log_exception", "rollback">>
    /\ last.op = "rollback" /\ last.n > 0

\* C10 as stated: when publishing an entry fails in the wrapper's commit,
\* after the database commit, publication continues with the remaining
\* entries and the caller gets no error.
C10_PublishFailureTolerated ==
    \A w \in Workers :
        "commit_publish_raised" \in Events(w) =>
            /\ exc[w] = NoExc
            /\ (last.op = "commit" /\ last.w = w) =>
                  last.n = Len(OutboxOf(info[w])) - 1
            /\ pc[w] \in Terminal => pc[w] = "returned"

\* C6 as stated: when every attempt is rejected by a serialization conflict,
\* the driver makes exactly 100 attempts and then raises the "retries
\* exhausted" error; it does not return normally.
C6_ExhaustionRaises ==
    \A w \in Workers :
        (pc[w] \in Terminal /\ count[w].conflicts = Attempts) =>
            /\ count[w].work = Attempts
            /\ pc[w] = "raised"
            /\ exc[w] = "Exhausted"

\* the errors an attempt fails with that are not a serialization conflict
NonConflict == {"OperationalError", "Exception", "BaseException", "PublishError"}

\* once an attempt has failed with an error that is not a conflict, the
\* driver only runs its handler and the release and then raises: no further
\* attempt, no sleep; and the session is released when it raises
NoRetryAfter(w) ==
    /\ pc[w] \in {"ser_except", "ser_finally", "raised"}
    /\ pc[w] = "raised" => ~bound[w]
    /\ count[w].conflicts = 0 => (count[w].work <= 1 /\ count[w].sleeps = 0)
    /\ count[w].sleeps = count[w].conflicts

\* C7 as stated: an attempt that fails with an error that is not a
\* serialization conflict is the last one, the session is released, there is
\* no sleep, and the caller receives that error.
C7_NonConflictPropagates ==
    \A w \in Workers :
        orig[w] \in NonConflict =>
            /\ NoRetryAfter(w)
            /\ pc[w] = "raised" => exc[w] = orig[w]

\* C7 as amended: the same, except that when the error is an
\* OperationalError and the session.rollback() of the handler itself
\* raises, the caller receives the rollback's error instead.
C7_NonConflictEndsTheCall ==
    \A w \in Workers :
        orig[w] \in NonConflict =>
            /\ NoRetryAfter(w)
            /\ pc[w] = "raised" =>
                  \/ exc[w] = orig[w]
                  \/ orig[w] = "OperationalError" /\ exc[w] = "RollbackError"

\* the first attempt failed with an OperationalError that is not a conflict
\* and the call raised it, after one attempt and without sleeping
C7_Witness ==
    /\ pc["w1"] = "raised"
    /\ orig["w1"] = "OperationalError" /\ exc["w1"] = "OperationalError"
    /\ count["w1"].work = 1 /\ count["w1"].sleeps = 0 /\ count["w1"].conflicts = 0
    /\ ~bound["w1"]

\* C8 as stated: in a call of the retry driver exactly one commit succeeds:
\* a commit that returns is the driver's commit of the attempt that
\* succeeded, the first of the call, made after the rejected attempts and
\* this one.
C8_OneCommitInTheCall ==
    [][\A w \in Workers :
          (last'.w = w /\ last'.op = "commit" /\ last'.out = "ok") =>
              /\ inCommit[w].at = "ser_commit"
              /\ count'[w].commits = 1
              /\ count'[w].work = count'[w].conflicts + 1]_vars

\* C8 as amended: a conflict leaves the driver with one attempt fewer and,
\* as long as fewer than 100 attempts were rejected, it tries again; when the
\* call returns a result of the work (the one the work returned in the
\* attempt that was committed), the attempts made are the rejected ones and
\* the one that succeeded, and the driver has committed exactly once; the
\* commits the work makes itself, in any attempt, come on top of that one.
C8_RetryUntilSuccess ==
    \A w \in Workers :
        /\ pc[w] \in {"ser_loop", "ser_try", "ser_work", "ser_commit", "ser_sleep",
                      "in_commit", "ser_finally_return"} =>
              attempts[w] = Attempts - count[w].conflicts
        /\ pc[w] = "ser_commit" =>
              (last.op = "work_returns" /\ result[w] = last.out)
        /\ pc[w] = "ser_finally_return" =>
              (last.op = "commit" /\ last.out = "ok" /\ result[w] \in Results)
        /\ (pc[w] = "returned" /\ result[w] # "None") =>
              /\ count[w].work = count[w].conflicts + 1
              /\ count[w].commits = 1
              /\ count[w].sleeps = count[w].conflicts
              /\ result[w] \in Results
              /\ ~bound[w]

\* P5: three attempts rejected by a conflict, the fourth succeeded: four
\* attempts, one commit, and the call returned the work's result
C8_Witness ==
    /\ pc["w1"] = "returned" /\ result["w1"] = "r2"
    /\ count["w1"].conflicts = 3 /\ count["w1"].work = 4
    /\ count["w1"].commits = 1
    /\ Len(bus) = 2

\* C9 as stated: a sleep happens only after an attempt rejected by a
\* conflict and is followed by another attempt; there is none once the call
\* has returned or raised.
C9_BackoffOnlyBeforeRetry ==
    [][\A w \in Workers :
          (last'.w = w /\ last'.op = "sleep") =>
              /\ pc[w] = "ser_sleep"
              /\ last.op = "remove"
              /\ count[w].sleeps < count[w].conflicts
              /\ attempts[w] > 0]_vars

\* the entries at positions 1..n of a sequence were all queued by worker w
QueuedBy(w, box) == \A i \in 1..Len(box) : box[i][2] \in SentBy(w)

\* C11: under every interleaving of the workers, a step of worker a (a
\* queue_message, a begin, a rollback, a step of a commit, a remove) leaves
\* the session of every other worker b as it was, also when b is in the
\* middle of a commit: b's outbox is neither extended nor cleared; what a's
\* step puts on the bus is an entry of a's own outbox, and a's outbox holds
\* only entries that a queued.
C11_OutboxPrivate ==
    [][\A a \in Workers :
          last'.w = a =>
              /\ \A b \in Workers \ {a} :
                    /\ info'[b] = info[b]
                    /\ bound'[b] = bound[b] /\ txn'[b] = txn[b]
                    /\ queued'[b] = queued[b]
                    /\ inCommit'[b] = inCommit[b] /\ pc'[b] = pc[b]
              /\ QueuedBy(a, OutboxOf(info'[a]))
              /\ \/ bus' = bus
                 \/ /\ Publishing(a)
                    /\ last'.n \in 1..Len(OutboxOf(info[a]))
                    /\ bus' = Append(bus, OutboxOf(info[a])[last'.n])
                    /\ QueuedBy(a, <<OutboxOf(info[a])[last'.n]>>)]_vars

\* w1 committed two entries and w2 one, and the commit of w2 published its
\* entry between the two publishes of the commit of w1
C11_Witness ==
    /\ last.w = "w1" /\ last.op = "commit" /\ last.out = "ok" /\ last.n = 2
    /\ bus = << <<"chat", "hello">>, <<"chat", "world">>, <<"chat", "hello">> >>
    /\ OutboxOf(info["w2"]) = << <<"chat", "world">> >>

\* a required delivery field of configuration c is missing (absent or
\* empty) or is the placeholder
Unusable(c) ==
    \E k \in {"smtp_host", "smtp_username", "smtp_password",
               "contact_email_on_error", "dallinger_email_address"} :
        c[k] \in {"None", "", "???"}

\* the fields named in the first message logged
FieldsLogged ==
    {mail.logged[1][i] : i \in 2..(Len(mail.logged[1]) - 1)}

\* C12 as stated: with the default strict=False, get_mailer returns the
\* logging variant when the mode is "debug" or a required field is missing
\* or the placeholder, and records the reason in both cases; it returns the
\* SMTP variant exactly when the mode is not "debug" and every required
\* field is usable.
C12_LoggingVariantWithReason ==
    (mail.called /\ ~strict) =>
        /\ (config["mode"] = "debug" \/ Unusable(config)) =>
              (mail.returned = "LoggingMailer" /\ mail.logged # <<>>)
        /\ mail.returned = "SMTPMailer" <=>
              (config["mode"] # "debug" /\ ~Unusable(config))

\* C12 as amended: with the default strict=False, get_mailer returns the
\* logging variant exactly when the mode is "debug" or a required field is
\* missing or the placeholder, and the SMTP variant, built from the host,
\* user name and password of the configuration, exactly otherwise; it
\* records the reason, naming exactly the unusable fields, only when the
\* mode is not "debug"; in "debug" mode it records nothing.
C12_MailerSelection ==
    (mail.called /\ ~strict) =>
        /\ mail.returned = "LoggingMailer" <=>
              (config["mode"] = "debug" \/ Unusable(config))
        /\ mail.returned = "SMTPMailer" <=>
              (config["mode"] # "debug" /\ ~Unusable(config))
        /\ mail.returned = "SMTPMailer" =>
              /\ mail.args = <<config["smtp_host"], config["smtp_username"],
                               config["smtp_password"]>>
              /\ mail.logged = <<>>
        /\ config["mode"] = "debug" => mail.logged = <<>>
        /\ (config["mode"] # "debug" /\ Unusable(config)) =>
              /\ Len(mail.logged) = 1
              /\ FieldsLogged = {k \in mail_config_keys :
                                    config[k] \in {"None", "", "???"}}

\* the mode is not "debug", only the password is the placeholder: the
\* logging variant is returned and the reason names the password
C12_Witness ==
    /\ mail.called /\ ~strict
    /\ config["mode"] = "live"
    /\ config["smtp_password"] = "???"
    /\ mail.returned = "LoggingMailer"
    /\ Len(mail.logged) = 1 /\ FieldsLogged = {"smtp_password"}

\* C13 as stated: with strict=True and a required field missing or the
\* placeholder, get_mailer raises InvalidEmailConfig and returns no mailer,
\* whatever the mode; with strict=False it returns the logging variant.
C13_StrictFailsOnInvalid ==
    (mail.called /\ Unusable(config)) =>
        IF strict
        THEN /\ mail.raised # <<>> /\ mail.raised[1] = "InvalidEmailConfig"
             /\ mail.returned = "nothing"
        ELSE mail.returned = "LoggingMailer" /\ mail.raised = <<>>

\* C13 as amended: with strict=True, a required field missing or the
\* placeholder, and a mode that is not "debug", get_mailer raises
\* InvalidEmailConfig and returns no mailer; in "debug" mode it returns the
\* logging variant without validating, strict or not; with strict=False
\* and an unusable field it returns the logging variant.  It raises in no
\* other case.
C13_StrictFailsUnlessDebug ==
    mail.called =>
        /\ (strict /\ Unusable(config) /\ config["mode"] # "debug") =>
              /\ mail.raised # <<>> /\ mail.raised[1] = "InvalidEmailConfig"
              /\ mail.returned = "nothing"
              /\ mail.logged = <<>>
        /\ config["mode"] = "debug" =>
              (mail.returned = "LoggingMailer" /\ mail.raised = <<>>)
        /\ (~strict /\ Unusable(config)) =>
              (mail.returned = "LoggingMailer" /\ mail.raised = <<>>)
        /\ mail.raised # <<>> =>
              (strict /\ Unusable(config) /\ config["mode"] # "debug")

\* strict=True, the mode is not "debug" and the host is missing: the call
\* raised InvalidEmailConfig, naming the host
C13_Witness ==
    /\ mail.called /\ strict
    /\ config["mode"] = "live" /\ config["smtp_host"] = "None"
    /\ mail.returned = "nothing"
    /\ Len(mail.raised) > 2 /\ mail.raised[1] = "InvalidEmailConfig"
    /\ \E i \in 3..Len(mail.raised) : mail.raised[i] = "smtp_host"

\* what the wrapper logs when it has called commit itself
CommitEvents == {"commit", "commit_publish_raised", "commit_raised"}

\* C14: the scoped transaction wrapper calls commit exactly when the work
\* has completed without raising and commit is true, and that commit, when
\* it succeeds, publishes the outbox; the decorator form always runs with
\* commit false; with commit false the wrapper calls no commit, the bus
\* changes only in a commit the work makes itself, and the release of the
\* session publishes nothing and discards what is still queued.
C14_CommitExactlyWhenAsked ==
    [][\A w \in Callers :
          /\ (Events(w)' \cap CommitEvents # {}) =>
                (commitArg'[w] /\ orig'[w] = NoExc)
          /\ (pc'[w] \in {"sc_except", "sc_rollback", "sc_finally"} \cup Terminal
                 /\ commitArg'[w] /\ orig'[w] = NoExc) =>
                (Events(w)' \cap CommitEvents # {})
          /\ inCommit'[w].at = "sc_commit" => (commitArg'[w] /\ orig'[w] = NoExc)
          /\ (inCommit[w].at = "sc_commit" /\ last'.op = "commit"
                /\ last'.out = "ok") =>
                   /\ Len(bus) = inCommit[w].b + Len(OutboxOf(info[w]))
                   /\ SubSeq(bus, inCommit[w].b + 1, Len(bus)) = OutboxOf(info[w])
          /\ last'.op = "scoped_session_decorator" => ~commitArg'[w]
          /\ (~commitArg'[w] /\ bus' # bus) =>
                (inCommit[w].at = "sc_work" /\ last'.op = "publish")
          /\ (pc[w] = "sc_finally" /\ last'.op = "remove") =>
                (bus' = bus /\ OutboxOf(info'[w]) = <<>> /\ ~bound'[w])]_vars

\* commit was false, the work queued two entries and returned without
\* committing: the call returned, the wrapper did nothing but release the
\* session, which discarded the two entries, and nothing was published
C14_Witness ==
    /\ pc["w1"] = "returned" /\ ~commitArg["w1"]
    /\ trace["w1"] = <<"remove">>
    /\ last.op = "remove" /\ last.n = 2
    /\ bus = <<>>

\* the step releases the session of worker w at the end of an attempt of
\* the retry driver that raised
ReleasesFailedAttempt(w) ==
    /\ pc[w] = "ser_finally" /\ last'.w = w /\ last'.op = "remove"

\* C15 as stated: in every attempt of the retry driver, whatever was raised
\* during the work or the commit (a conflict, another OperationalError, any
\* other exception), the transaction is rolled back before the session is
\* released: the release follows the driver's rollback, and finds no
\* committed or open transaction.
C15_AnyErrorRollsBack ==
    [][\A w \in Callers :
          ReleasesFailedAttempt(w) =>
              /\ last.op = "rollback"
              /\ txn[w] = "none"]_vars

\* C15 as amended: an OperationalError (a conflict or not) that leaves the
\* connect, the work or the driver's commit makes the driver call rollback
\* before it releases the session, and when that rollback succeeds no
\* transaction is open and the outbox is empty at the release; for any other
\* exception the driver calls no rollback: the release follows the raise
\* directly and finds the transaction as the attempt left it, committed when
\* the exception is a publish failure.  After the release the worker has no
\* session and no transaction.
C15_OperationalErrorRollsBack ==
    [][\A w \in Callers :
          ReleasesFailedAttempt(w) =>
              /\ orig[w] # NoExc
              /\ orig[w] \in Operational =>
                    /\ last.op = "rollback"
                    /\ last.out = "ok" =>
                          (txn[w] = "none" /\ OutboxOf(info[w]) = <<>>)
              /\ orig[w] \notin Operational =>
                    /\ last.op \in {"work_raises", "commit"}
                    /\ orig[w] = "PublishError" => txn[w] = "committed"
              /\ txn'[w] = "none" /\ ~bound'[w]]_vars

\* the work queued an entry and was rejected by a conflict; the handler's
\* rollback succeeded and discarded the entry, and the session is about to
\* be released with no transaction open
C15_Witness ==
    /\ pc["w1"] = "ser_finally"
    /\ orig["w1"] = "TransactionRollbackError"
    /\ last.op = "rollback" /\ last.out = "ok" /\ last.n = 1
    /\ txn["w1"] = "none" /\ OutboxOf(info["w1"]) = <<>>

\* the worker has no session: the next use gets a fresh one
Released(w) == ~bound[w] /\ info[w] = FreshInfo /\ txn[w] = "none"

\* C16: in a call of the retry driver the worker has no session (what was
\* there before the call, or what an attempt left, is released) whenever an
\* attempt is about to start, during the sleep, and when the call has
\* returned or raised; and whenever the work is entered, in the first attempt
\* and in every later one, the session is one created in this attempt, its
\* transaction is open, its outbox is empty and its isolation level is
\* SERIALIZABLE.
C16_NoLeakBetweenAttempts ==
    \A w \in Callers :
        /\ pc[w] \in {"ser_loop", "ser_try", "ser_sleep"} \cup Terminal => Released(w)
        /\ (last.w = w /\ last.op = "connect" /\ last.out = "ok") =>
              /\ pc[w] = "ser_work"
              /\ bound[w] /\ txn[w] = "active" /\ iso[w] = "SERIALIZABLE"
              /\ info[w] = [has |-> TRUE, outbox |-> <<>>]
              /\ queued[w] = <<>>

\* the second attempt of a call: the first was rejected by a conflict, and
\* the work is entered again on a new session, SERIALIZABLE, its outbox empty
C16_Witness ==
    /\ pc["w1"] = "ser_work" /\ last.op = "connect" /\ last.out = "ok"
    /\ count["w1"].work = 2 /\ count["w1"].conflicts = 1
    /\ iso["w1"] = "SERIALIZABLE" /\ txn["w1"] = "active"
    /\ info["w1"] = [has |-> TRUE, outbox |-> <<>>]

\* C17: a rollback to a savepoint leaves the outer transaction open,
\* publishes nothing and discards every entry of the outbox, those queued
\* before the savepoint included; when the outer transaction then commits,
\* the bus receives exactly the entries queued after that rollback, in the
\* order queued, and none of the discarded ones.
C17_SavepointRollbackDiscards ==
    [][\A w \in Callers :
          /\ (last'.w = w /\ last'.op = "soft_rollback") =>
                /\ txn[w] = "active" /\ txn'[w] = "active"
                /\ OutboxOf(info'[w]) = <<>> /\ queued'[w] = <<>>
                /\ last'.n = Len(OutboxOf(info[w]))
                /\ bus' = bus
          /\ (inCommit[w].t = "active" /\ Publishing(w)) =>
                /\ OutboxOf(info[w]) = queued[w]
                /\ bus' = Append(bus, OutboxOf(info[w])[last'.n])
          /\ (last'.w = w /\ last'.op = "commit" /\ last'.out = "db_committed"
                /\ txn[w] = "active") =>
                   OutboxOf(info[w]) = queued[w]]_vars

\* "hello" and "world" were queued in an open transaction and a rollback to
\* a savepoint has just discarded both: the transaction is still open and
\* its outbox is empty
C17_Witness ==
    /\ last.op = "soft_rollback" /\ last.n = 2
    /\ txn["w1"] = "active"
    /\ OutboxOf(info["w1"]) = <<>>
    /\ bus = <<>>

\* C18: in one call of the retry driver the attempt counter starts at 100,
\* is between 0 and 100, changes only by going down by one when the handler
\* has rolled back an attempt rejected by a conflict; an attempt is started
\* only while it is above 0; the work is attempted at most 100 times; and
\* whatever the outcomes of the attempts, the call returns or raises.
C18_BoundedAttempts ==
    /\ [](\A w \in Callers :
            /\ attempts[w] \in 0..Attempts
            /\ count[w].work <= Attempts
            /\ count[w].work <= count[w].conflicts + 1
            /\ pc[w] \in {"ser_try", "ser_work", "ser_commit", "ser_except"} =>
                  attempts[w] > 0)
    /\ [][\A w \in Callers :
            /\ last'.op = "serialized" => attempts'[w] = Attempts
            /\ (last'.op = "connect" /\ last'.out = "ok") =>
                  (attempts[w] > 0 /\ count'[w].work = count[w].work + 1)
            /\ attempts'[w] # attempts[w] =>
                  \/ last'.op = "serialized"
                  \/ /\ last'.op = "rollback" /\ last'.out = "ok"
                     /\ exc[w] = "TransactionRollbackError"
                     /\ attempts'[w] = attempts[w] - 1
            /\ (last'.op = "rollback" /\ last'.out = "ok"
                   /\ exc[w] = "TransactionRollbackError") =>
                  attempts'[w] = attempts[w] - 1]_vars
    /\ \A w \in Callers : (pc[w] = "ser_loop") ~> (pc[w] \in Terminal)

\* every attempt was rejected by a conflict: the counter is at 0, the work
\* was attempted 100 times, and the call has ended
C18_Witness ==
    /\ pc["w1"] \in Terminal
    /\ attempts["w1"] = 0
    /\ count["w1"].work = Attempts /\ count["w1"].conflicts = Attempts

\* C19 as stated: an entry is published at most once: a commit that
\* succeeds publishes the entries queued since the last commit, begin or
\* rollback event of the session, and none of those an earlier commit of the
\* session has published already.
C19_PublishedAtMostOnce ==
    [][\A w \in Callers :
          (last'.w = w /\ last'.op = "commit" /\ last'.out = "ok") =>
              /\ Len(bus) = inCommit[w].b + Len(queued[w])
              /\ SubSeq(bus, inCommit[w].b + 1, Len(bus)) = queued[w]]_vars

\* C20 as stated: in a call of the retry driver the bus changes only in a
\* commit, by entries that the work queued in the transaction committed, each
\* once, in the order queued; every attempt starts with an empty outbox, and
\* what an attempt had queued when it was rejected or failed is discarded
\* without being published.
C20_OnlyCommittedAttemptPublishes ==
    [][\A w \in Callers :
          /\ (last'.op = "connect" /\ last'.out = "ok") =>
                (OutboxOf(info'[w]) = <<>> /\ queued'[w] = <<>>)
          /\ bus' # bus => Publishing(w)
          /\ Publishing(w) =>
                /\ last'.n <= Len(queued[w])
                /\ bus' = Append(bus, queued[w][last'.n])
          /\ (last'.w = w /\ last'.op = "commit" /\ last'.out = "ok") =>
                inCommit[w].sent = Len(queued[w])
          /\ (pc[w] \in {"ser_except", "ser_finally"}
                 /\ last'.op \in {"rollback", "remove"}) =>
                /\ bus' = bus
                /\ last'.out = "ok" => OutboxOf(info'[w]) = <<>>]_vars

\* C21 as stated: when the begin event of a session fires with entries in
\* the outbox that queue_message put there before it, and the transaction
\* then commits successfully, with no rollback and nothing else in between,
\* that commit publishes those entries: it has at least that many entries
\* to publish.
C21_QueuedBeforeBeginPublished ==
    [][\A w \in Callers :
          (last.w = w /\ last.op = "begin" /\ last.n > 0
             /\ last'.w = w /\ last'.op = "commit"
             /\ last'.out = "db_committed") =>
              last'.n >= last.n]_vars

====
